---- MODULE Spec2Model ----
(***************************************************************************)
(* Ben-Or style binary consensus node (workshop-5).                        *)
(*                                                                         *)
(* The repository holds two copies of the node:                            *)
(*   src/src/nodes/node.ts  sends kinds "2P"/"2V", handles "Propose"/"Vote"*)
(*   src/unnamed/part_000   sends and handles "propose"/"vote"             *)
(* The copies are otherwise the same program; the variable impl says which *)
(* copy runs.                                                              *)
(*                                                                         *)
(* A tally (Value[] in the source) is read only through .length and        *)
(* .filter(..).length, so it is kept as the number of entries of each      *)
(* value.  A Map entry is created together with its first push, so         *)
(* proposals.has(k) is the same as a non-empty tally.                      *)
(*                                                                         *)
(* Two kinds of specification are given.  Spec drives the handlers of one  *)
(* node (node 0) with requests whose bodies are drawn from Messages: the   *)
(* HTTP endpoints accept any request.  The other specifications close the  *)
(* system: N nodes, every node started once, and the only messages a node  *)
(* receives are those the nodes broadcast, each delivered at most once.    *)
(* SpecSame and SpecScenarioB deliver in any order; SpecScenarioA keeps    *)
(* the runs of one delivery discipline, which is enough to exhibit runs    *)
(* the code can make.                                                      *)
(***************************************************************************)
EXTENDS Integers, FiniteSets, Sequences, TLC

\* ------------------------------------------------------------------ bounds
\* Highest round whose messages are handled; messages of later rounds are
\* sent but stay in flight.
MaxRound == 2
\* Largest number of entries in one round's tally; further messages of that
\* round and kind stay in flight.
MaxTally == 4
\* Number of GET /start requests node 0 receives under Spec.
MaxStarts == 1
\* Number of POST /message requests node 0 receives under Spec.
MaxRequests == 4

\* ------------------------------------------------------------- value domain
\* "?" of NodeState.x
Amb == 2
\* null of NodeState.x and NodeState.k
Null == -1
\* what a message or a tally entry carries
Values == {0, 1, Amb}

VARIABLES
    impl,          \* which copy of the node runs: "node.ts" or "part_000"
    N,             \* total number of nodes
    F,             \* number of faulty nodes tolerated
    isFaulty,      \* isFaulty[i]
    initialValue,  \* initialValue[i]
    ready,         \* nodes whose server has called setNodeIsReady
    waiting,       \* waiting[i]: /start requests of i polling nodesAreReady
    starts,        \* starts[i]: /start requests received by i
    requests,      \* /message requests drawn from Messages so far (Spec)
    currentState,  \* currentState[i] = [killed, x, decided, k]
    proposals,     \* proposals[i][k]: tally of round-k proposals of node i
    votes,         \* votes[i][k]: tally of round-k votes of node i
    sent,          \* sent[i][m]: broadcasts of body m made by node i
    inbox          \* inbox[i][m]: copies of body m in flight to node i

vars == <<impl, N, F, isFaulty, initialValue, ready, waiting, starts, requests,
          currentState, proposals, votes, sent, inbox>>

config == <<impl, N, F, isFaulty, initialValue>>

\* the two copies of the node in the repository
Impls == {"node.ts", "part_000"}

Nodes == 0 .. (N - 1)
Rounds == 1 .. MaxRound

\* --------------------------------------------------------- message kinds
\* type written into the body of a proposal broadcast
SentProposeKind == IF impl = "node.ts" THEN "2P" ELSE "propose"
\* type written into the body of a vote broadcast
SentVoteKind == IF impl = "node.ts" THEN "2V" ELSE "vote"
\* type the /message handler treats as a proposal
HandledProposeKind == IF impl = "node.ts" THEN "Propose" ELSE "propose"
\* type the /message handler treats as a vote
HandledVoteKind == IF impl = "node.ts" THEN "Vote" ELSE "vote"

\* a type neither copy tests for and neither copy sends
OtherKind == "other"

\* the types a body carries: those the handler tests for and those the
\* broadcasts carry
Kinds == {HandledProposeKind, HandledVoteKind, SentProposeKind, SentVoteKind}
Messages == [k : 1 .. (MaxRound + 1), x : Values, type : Kinds]
Msg(k, x, type) == [k |-> k, x |-> x, type |-> type]

\* ----------------------------------------------------------------- tallies
EmptyTally == [v \in Values |-> 0]
\* tally.push(x)
Push(t, v) == [t EXCEPT ![v] = @ + 1]
\* tally.length
Length(t) == t[0] + t[1] + t[Amb]
\* tally.filter((x) => x == v).length
Count(t, v) == t[v]

\* the quorum test of both branches: tally.length >= N - F
Quorum(t) == Length(t) >= N - F

\* the vote value with >= in place of >
VoteValueAtHalf(t) ==
    LET CN == Count(t, 0)
        CY == Count(t, 1)
    IN  IF 2 * CN >= N THEN 0 ELSE IF 2 * CY >= N THEN 1 ELSE Amb

\* the vote value with the two outcomes exchanged
VoteValueSwapped(t) ==
    LET CN == Count(t, 0)
        CY == Count(t, 1)
    IN  IF 2 * CN > N THEN 1 ELSE IF 2 * CY > N THEN 0 ELSE Amb

\* x = CN > N / 2 ? 0 : CY > N / 2 ? 1 : "?"   (N / 2 is not rounded)
VoteValue(t) ==
    LET CN == Count(t, 0)
        CY == Count(t, 1)
    IN  IF 2 * CN > N THEN 0 ELSE IF 2 * CY > N THEN 1 ELSE Amb

\* the decision test with > in place of >=
DecidesZeroStrict(t) == Count(t, 0) > F + 1

\* CN >= F + 1
DecidesZero(t) == Count(t, 0) >= F + 1
\* else CY >= F + 1
DecidesOne(t) == ~DecidesZero(t) /\ Count(t, 1) >= F + 1

\* the values the last branch may assign to x:
\* CN + CY > 0 && CN > CY ? 0 : CN + CY > 0 && CN < CY ? 1 : Math.random() > 0.5 ? 0 : 1
NextRoundValues(t) ==
    LET CN == Count(t, 0)
        CY == Count(t, 1)
    IN  IF CN + CY > 0 /\ CN > CY THEN {0}
        ELSE IF CN + CY > 0 /\ CN < CY THEN {1}
        ELSE {0, 1}

\* for (let i = 0; i < N; i++) fetch(.../message, body m), seen from the
\* sender i: one more broadcast of m
Broadcast(s, i, m) == [s EXCEPT ![i][m] = @ + 1]
\* and seen from the transport: one more copy of m in flight to every node
\* that handles bodies (a faulty node discards every body it receives, so
\* nothing is kept in flight for it)
Post(box, m) == [j \in Nodes |-> IF isFaulty[j] THEN box[j] ELSE [box[j] EXCEPT ![m] = @ + 1]]

\* nodesAreReady(): every node has called setNodeIsReady
nodesAreReady == ready = Nodes

\* a snapshot that skips the isFaulty test
getStateUngated(i) == currentState[i]

\* GET /getState
getState(i) ==
    IF isFaulty[i]
    THEN [killed |-> currentState[i].killed, x |-> Null, decided |-> "null", k |-> Null]
    ELSE currentState[i]

\* ------------------------------------------------------------------- Init
\* let currentState: NodeState = {killed: false, x: initialValue, decided: false, k: 0}
InitialState(v) == [killed |-> FALSE, x |-> v, decided |-> "false", k |-> 0]

InitWith(im, n, f, faulty, init) ==
    /\ impl = im
    /\ N = n
    /\ F = f
    /\ isFaulty = faulty
    /\ initialValue = init
    /\ ready = {}
    /\ waiting = [i \in 0 .. (n - 1) |-> 0]
    /\ starts = [i \in 0 .. (n - 1) |-> 0]
    /\ requests = 0
    /\ currentState = [i \in 0 .. (n - 1) |-> InitialState(init[i])]
    /\ proposals = [i \in 0 .. (n - 1) |-> [k \in Rounds |-> EmptyTally]]
    /\ votes = [i \in 0 .. (n - 1) |-> [k \in Rounds |-> EmptyTally]]
    /\ sent = [i \in 0 .. (n - 1) |-> [m \in Messages |-> 0]]
    /\ inbox = [i \in 0 .. (n - 1) |-> [m \in Messages |-> 0]]

\* ------------------------------------------------------------ the handlers
\* node.listen(..., () => setNodeIsReady(nodeId))
Listen(i) ==
    /\ i \notin ready
    /\ ready' = ready \cup {i}
    /\ UNCHANGED <<config, waiting, starts, requests, currentState, proposals, votes,
                   sent, inbox>>

\* GET /start after the readiness loop
StartBody(i) ==
    IF ~isFaulty[i]
    THEN /\ currentState' = [currentState EXCEPT ![i] =
                [@ EXCEPT !.k = 1, !.x = initialValue[i], !.decided = "false"]]
         /\ sent' = Broadcast(sent, i, Msg(1, initialValue[i], SentProposeKind))
         /\ inbox' = Post(inbox, Msg(1, initialValue[i], SentProposeKind))
    ELSE /\ currentState' = [currentState EXCEPT ![i] =
                [@ EXCEPT !.decided = "null", !.x = Null, !.k = Null]]
         /\ UNCHANGED <<sent, inbox>>

\* GET /start without its readiness loop
StartCallUnbarred(i) ==
    /\ i \in ready
    /\ starts[i] < MaxStarts
    /\ starts' = [starts EXCEPT ![i] = @ + 1]
    /\ StartBody(i)
    /\ UNCHANGED <<config, ready, waiting, requests, proposals, votes>>

\* GET /start arrives: it runs through when nodesAreReady() holds, else it
\* parks in the polling loop
StartCall(i) ==
    /\ i \in ready
    /\ starts[i] < MaxStarts
    /\ starts' = [starts EXCEPT ![i] = @ + 1]
    /\ IF nodesAreReady
       THEN StartBody(i) /\ waiting' = waiting
       ELSE waiting' = [waiting EXCEPT ![i] = @ + 1] /\ UNCHANGED <<currentState, sent, inbox>>
    /\ UNCHANGED <<config, ready, requests, proposals, votes>>

\* a parked /start finds nodesAreReady() true after a delay(100) and runs
StartResume(i) ==
    /\ waiting[i] > 0
    /\ nodesAreReady
    /\ waiting' = [waiting EXCEPT ![i] = @ - 1]
    /\ StartBody(i)
    /\ UNCHANGED <<config, ready, starts, requests, proposals, votes>>

\* GET /stop
Stop(i) ==
    /\ i \in ready
    /\ currentState' = [currentState EXCEPT ![i] =
            [killed |-> TRUE, x |-> Null, decided |-> "null", k |-> 0]]
    /\ UNCHANGED <<config, ready, waiting, starts, requests, proposals, votes,
                   sent, inbox>>

\* The handlers below take box, the copies in flight once the transport has
\* handed the request over, and add to it what the handler broadcasts.

\* the proposal branch of POST /message
OnPropose(i, m, box) ==
    LET t == Push(proposals[i][m.k], m.x)
        vote == Msg(m.k, VoteValue(t), SentVoteKind)
    IN  /\ proposals' = [proposals EXCEPT ![i][m.k] = t]
        /\ IF Quorum(t)
           THEN sent' = Broadcast(sent, i, vote) /\ inbox' = Post(box, vote)
           ELSE sent' = sent /\ inbox' = box
        /\ UNCHANGED <<currentState, votes>>

\* the vote branch of POST /message
OnVote(i, m, box) ==
    LET t == Push(votes[i][m.k], m.x)
    IN  /\ votes' = [votes EXCEPT ![i][m.k] = t]
        /\ IF ~Quorum(t)
           THEN currentState' = currentState /\ sent' = sent /\ inbox' = box
           ELSE IF DecidesZero(t)
           THEN /\ currentState' = [currentState EXCEPT ![i] =
                        [@ EXCEPT !.x = 0, !.decided = "true"]]
                /\ sent' = sent /\ inbox' = box
           ELSE IF DecidesOne(t)
           THEN /\ currentState' = [currentState EXCEPT ![i] =
                        [@ EXCEPT !.x = 1, !.decided = "true"]]
                /\ sent' = sent /\ inbox' = box
           ELSE \E v \in NextRoundValues(t) :
                   /\ currentState' = [currentState EXCEPT ![i] =
                           [@ EXCEPT !.x = v, !.k = m.k + 1]]
                   /\ sent' = Broadcast(sent, i, Msg(m.k + 1, v, SentProposeKind))
                   /\ inbox' = Post(box, Msg(m.k + 1, v, SentProposeKind))
        /\ UNCHANGED proposals

\* the guard without its killed test
ProcessesWhenKilled(i) == ~isFaulty[i]

\* if (!currentState.killed && !isFaulty)
Processes(i) == ~currentState[i].killed /\ ~isFaulty[i]

\* POST /message with a final else that takes every other type for a vote
HandleOtherAsVote(i, m, box) ==
    IF Processes(i)
    THEN IF m.type = HandledProposeKind THEN OnPropose(i, m, box) ELSE OnVote(i, m, box)
    ELSE inbox' = box /\ UNCHANGED <<currentState, proposals, votes, sent>>

\* POST /message with body m at node i
Handle(i, m, box) ==
    IF Processes(i)
    THEN IF m.type = HandledProposeKind THEN OnPropose(i, m, box)
         ELSE IF m.type = HandledVoteKind THEN OnVote(i, m, box)
         ELSE inbox' = box /\ UNCHANGED <<currentState, proposals, votes, sent>>
    ELSE inbox' = box /\ UNCHANGED <<currentState, proposals, votes, sent>>

\* the tally a body m would be pushed on
TallyFor(i, m) ==
    IF m.type = HandledProposeKind THEN proposals[i][m.k] ELSE votes[i][m.k]

\* the bodies whose handling the bounds leave out: a round above MaxRound, or
\* a tally that already holds MaxTally entries
InBounds(i, m) ==
    /\ m.k <= MaxRound
    /\ (Processes(i) /\ m.type \in {HandledProposeKind, HandledVoteKind})
          => Length(TallyFor(i, m)) < MaxTally

\* ---------------------------------------------------- Spec: one node driven
\* the bodies drawn for the requests to a node; a proposal carries the x of
\* its sender, which is 0 or 1
Drawn ==
    {m \in [k : 1 .. (MaxRound + 1), x : Values, type : Kinds \cup {OtherKind}] :
        m.type \in {HandledProposeKind, SentProposeKind} => m.x \in {0, 1}}

\* POST /message with a drawn body m arrives at node i
OnMessage(i, m) ==
    /\ nodesAreReady
    /\ requests < MaxRequests
    /\ InBounds(i, m)
    /\ requests' = requests + 1
    /\ Handle(i, m, inbox)
    /\ UNCHANGED <<config, ready, waiting, starts>>

\* the (N, F) pairs node 0 is constructed with
Configs == {<<2, 0>>, <<4, 1>>}

Init ==
    \E im \in Impls, c \in Configs, flt \in BOOLEAN, v \in {0, 1} :
        InitWith(im, c[1], c[2],
                 [i \in 0 .. (c[1] - 1) |-> flt /\ i = 0],
                 [i \in 0 .. (c[1] - 1) |-> IF i = 0 THEN v ELSE 1 - v])

Next ==
    \/ \E i \in Nodes : Listen(i)
    \/ StartCall(0)
    \/ StartResume(0)
    \/ Stop(0)
    \/ \E m \in Drawn : OnMessage(0, m)

Spec == Init /\ [][Next]_vars

\* ------------------------------------------------- Run: the closed system
Take(box, i, m) == [box EXCEPT ![i][m] = @ - 1]

\* the transport delivers one copy of a broadcast body to node i
Deliver(i, m) ==
    /\ inbox[i][m] > 0
    /\ InBounds(i, m)
    /\ Handle(i, m, Take(inbox, i, m))
    /\ UNCHANGED <<config, ready, waiting, starts, requests>>

\* every node is started exactly once
StartOnce(i) == starts[i] = 0 /\ StartCall(i)

RunNext ==
    \/ \E i \in Nodes : Listen(i)
    \/ \E i \in Nodes : StartOnce(i)
    \/ \E i \in Nodes : StartResume(i)
    \/ \E i \in Nodes : \E m \in Messages : Deliver(i, m)

\* The ordered discipline.  The fetch calls of a broadcast are not awaited,
\* so the transport may deliver in any order; the runs of this discipline are
\* some of them: all nodes are started before the first delivery, a node
\* takes a body only when no lower-numbered node has one to take, and it
\* takes the bodies of the lowest round first, proposals before votes.
Started(i) == starts[i] > 0 /\ waiting[i] = 0
Deliverable(i) == \E m \in Messages : inbox[i][m] > 0 /\ InBounds(i, m)
Rank(m) == 2 * m.k + (IF m.type = SentVoteKind THEN 1 ELSE 0)

DeliverInOrder(i, m) ==
    /\ inbox[i][m] > 0
    /\ \A j \in Nodes : Started(j)
    /\ \A j \in Nodes : j < i => ~Deliverable(j)
    /\ \A m2 \in Messages : (inbox[i][m2] > 0 /\ InBounds(i, m2)) => Rank(m) <= Rank(m2)
    /\ Deliver(i, m)

OrderedNext ==
    \/ \E i \in Nodes : Listen(i)
    \/ \E i \in Nodes : StartOnce(i)
    \/ \E i \in Nodes : StartResume(i)
    \/ \E i \in Nodes : \E m \in Messages : DeliverInOrder(i, m)

\* Scenario A: N = 4, F = 1, initial values [0,0,1,0], nobody faulty, run
\* under the ordered discipline.
InitScenarioA ==
    \E im \in Impls :
        InitWith(im, 4, 1, [i \in 0 .. 3 |-> FALSE], [i \in 0 .. 3 |-> IF i = 2 THEN 1 ELSE 0])

SpecScenarioA == InitScenarioA /\ [][OrderedNext]_vars

\* Validity runs: every non-faulty node is constructed with the same value v
\* (a faulty one with 1 - v); <<N, F, faulty nodes>> is one of SameConfigs.
\* When a quorum is a strict majority (N > 2F) deliveries come in any order.
\* With N = 2, F = 1 a single body is a quorum and every body handled is
\* answered by a broadcast; of those runs the ones kept are those of the
\* ordered discipline, followed until a node decides against its initial
\* value.
SameConfigs == {<<4, 1, {3}>>, <<3, 1, {}>>, <<3, 1, {2}>>, <<2, 1, {}>>}

InitSame ==
    \E im \in Impls, c \in SameConfigs, v \in {0, 1} :
        InitWith(im, c[1], c[2],
                 [i \in 0 .. (c[1] - 1) |-> i \in c[3]],
                 [i \in 0 .. (c[1] - 1) |-> IF i \in c[3] THEN 1 - v ELSE v])

DecidedAgainst(j) ==
    currentState[j].decided = "true" /\ currentState[j].x # initialValue[j]

DeliverSame(i, m) ==
    IF 2 * F < N
    THEN Deliver(i, m)
    ELSE (\A j \in Nodes : ~DecidedAgainst(j)) /\ DeliverInOrder(i, m)

SameNext ==
    \/ \E i \in Nodes : Listen(i)
    \/ \E i \in Nodes : StartOnce(i)
    \/ \E i \in Nodes : StartResume(i)
    \/ \E i \in Nodes : \E m \in Messages : DeliverSame(i, m)

SpecSame == InitSame /\ [][SameNext]_vars

\* Scenario B: N = 4, F = 1, node 2 faulty, the others start with 0, 1, 1.
\* Every handler that is invoked completes and every body in flight is
\* delivered: weak fairness of the step relation.
InitScenarioB ==
    \E im \in Impls :
        InitWith(im, 4, 1, [i \in 0 .. 3 |-> i = 2], [i \in 0 .. 3 |-> IF i = 0 THEN 0 ELSE 1])

SpecScenarioB == InitScenarioB /\ [][RunNext]_vars /\ WF_vars(RunNext)

\* ======================================================================
\* Claims settled under Spec (one node driven by drawn requests)
\* ======================================================================

\* number of vote broadcasts node i has made for round k
VotesSent(i, k) ==
    sent[i][Msg(k, 0, SentVoteKind)] + sent[i][Msg(k, 1, SentVoteKind)]
        + sent[i][Msg(k, Amb, SentVoteKind)]
\* number of proposal broadcasts node i has made for round k
ProposalsSent(i, k) ==
    sent[i][Msg(k, 0, SentProposeKind)] + sent[i][Msg(k, 1, SentProposeKind)]

\* a request with body m is handled by node 0 while it processes bodies
HandledBy0(m) == OnMessage(0, m) /\ Processes(0)

\* C3 (as claimed): once node 0 shows decided = true, handling a proposal or
\* a vote of any round changes neither its x nor its decided.
C3_TerminalAfterDecision ==
    [][\A m \in Drawn :
          (HandledBy0(m) /\ currentState[0].decided = "true")
             => /\ currentState'[0].x = currentState[0].x
                /\ currentState'[0].decided = currentState[0].decided]_vars

\* C4 (as claimed): once a snapshot of node 0 shows decided = true with a
\* value x, the next snapshot shows decided = true and the same x, whichever
\* of start, stop or a message handler ran in between.
C4_DecisionPermanent ==
    [][getState(0).decided = "true"
          => /\ getState(0)'.decided = "true"
             /\ getState(0)'.x = getState(0).x]_vars

\* C8 (as claimed): handling a proposal of round k broadcasts a vote of
\* round k if and only if this proposal makes the round-k tally reach
\* exactly N - F entries.
C8_VoteIffTallyReachesQuorum ==
    [][\A m \in Drawn :
          (HandledBy0(m) /\ m.type = HandledProposeKind)
             => ((VotesSent(0, m.k)' > VotesSent(0, m.k))
                    <=> (Length(proposals'[0][m.k]) = N - F))]_vars

\* what the vote branch did with the state record
DecidedNow(v) ==
    /\ currentState'[0] = [currentState[0] EXCEPT !.x = v, !.decided = "true"]
    /\ sent' = sent
AdvancedNow(m) ==
    /\ currentState'[0].decided = currentState[0].decided
    /\ currentState'[0].killed = currentState[0].killed
    /\ currentState'[0].k = m.k + 1
    /\ currentState'[0].x \in
          (LET CN == votes'[0][m.k][0]
               CY == votes'[0][m.k][1]
           IN  IF CN > CY THEN {0} ELSE IF CY > CN THEN {1} ELSE {0, 1})
    /\ ProposalsSent(0, m.k + 1)' = ProposalsSent(0, m.k + 1) + 1
    /\ sent'[0][Msg(m.k + 1, currentState'[0].x, SentProposeKind)]
          = sent[0][Msg(m.k + 1, currentState'[0].x, SentProposeKind)] + 1
\* a vote of round m.k is handled and the tally is at quorum afterwards
VoteAtQuorum(m) ==
    /\ HandledBy0(m)
    /\ m.type = HandledVoteKind
    /\ Length(votes'[0][m.k]) >= N - F

\* C9 (as claimed): at a vote quorum the node decides 0 iff the tally holds
\* at least F + 1 zeros, decides 1 iff it holds at least F + 1 ones, and
\* otherwise advances with the majority value or a coin flip.
C9_DecisionRuleAsClaimed ==
    [][\A m \in Drawn :
          VoteAtQuorum(m)
             => LET CN == votes'[0][m.k][0]
                    CY == votes'[0][m.k][1]
                IN  /\ DecidedNow(0) <=> CN >= F + 1
                    /\ DecidedNow(1) <=> CY >= F + 1
                    /\ (CN < F + 1 /\ CY < F + 1) => AdvancedNow(m)]_vars

\* C9 (amended): at a vote quorum the node decides 0 iff the tally holds at
\* least F + 1 zeros, decides 1 iff it holds at least F + 1 ones and fewer
\* than F + 1 zeros, and when neither count reaches F + 1 it sets no
\* decision, sets k to the vote's round plus one, sets x to the more frequent
\* of 0/1 among the votes (either of them when tied or both absent) and
\* broadcasts that proposal.
C9_DecisionRule ==
    [][\A m \in Drawn :
          VoteAtQuorum(m)
             => LET CN == votes'[0][m.k][0]
                    CY == votes'[0][m.k][1]
                IN  /\ DecidedNow(0) <=> CN >= F + 1
                    /\ DecidedNow(1) <=> (CY >= F + 1 /\ CN < F + 1)
                    /\ (CN < F + 1 /\ CY < F + 1) => AdvancedNow(m)]_vars

\* C9 witness: a vote tally at quorum that holds F + 1 zeros and F + 1 ones,
\* and node 0 has decided 0 on it
C9_Witness ==
    \E k \in Rounds :
        /\ Quorum(votes[0][k])
        /\ Count(votes[0][k], 0) = F + 1
        /\ Count(votes[0][k], 1) = F + 1
        /\ Length(votes[0][k]) = requests
        /\ currentState[0].decided = "true"
        /\ currentState[0].x = 0

\* C10: every snapshot of a faulty node has x, decided and k null, and its
\* killed is the killed of the state record.
C10_FaultyInert ==
    \A i \in Nodes :
        isFaulty[i]
           => /\ getState(i).x = Null
              /\ getState(i).decided = "null"
              /\ getState(i).k = Null
              /\ getState(i).killed = currentState[i].killed

\* C10 witness: a faulty node that was started, handled requests and was
\* stopped, so that its state record is not the null triple
C10_Witness ==
    /\ isFaulty[0]
    /\ starts[0] > 0
    /\ requests > 0
    /\ currentState[0].killed
    /\ currentState[0].k = 0

\* ======================================================================
\* Claims settled under the closed runs
\* ======================================================================

\* C1 (as claimed): no two non-faulty nodes show decided = true with
\* different x in their snapshots.
C1_Agreement ==
    \A i, j \in Nodes :
        (/\ ~isFaulty[i] /\ ~isFaulty[j]
         /\ getState(i).decided = "true"
         /\ getState(j).decided = "true")
           => getState(i).x = getState(j).x

\* every non-faulty node was constructed with the same value
SameStart ==
    \A i, j \in Nodes : (~isFaulty[i] /\ ~isFaulty[j]) => initialValue[i] = initialValue[j]

Decisive(t, v) == Quorum(t) /\ Count(t, v) >= F + 1

\* C5 (as claimed): in no round does one non-faulty node's vote tally meet
\* the decision condition for 0 while another's meets it for 1.
C5_QuorumIntersection ==
    \A k \in Rounds : \A i, j \in Nodes :
        (~isFaulty[i] /\ ~isFaulty[j] /\ i # j)
           => ~(Decisive(votes[i][k], 0) /\ Decisive(votes[j][k], 1))

\* C6 (as claimed, its safety part): in scenario A every round-1 vote a node
\* broadcasts carries 0, and a node that has reached x = 0, decided = true
\* stays there.
C6_ScenarioA ==
    [][/\ \A i \in Nodes : VotesSent(i, 1)' = sent'[i][Msg(1, 0, SentVoteKind)]
       /\ \A i \in Nodes :
              (currentState[i].x = 0 /\ currentState[i].decided = "true")
                 => (currentState'[i].x = 0 /\ currentState'[i].decided = "true")]_vars

\* C7 (as claimed): in scenario B every non-faulty node eventually has a
\* round-1 proposal tally and a round-1 vote tally of N - F entries and has
\* decided or moved to round 2.
C7_ScenarioB ==
    <>(\A i \in Nodes :
          ~isFaulty[i]
             => /\ Length(proposals[i][1]) >= N - F
                /\ Length(votes[i][1]) >= N - F
                /\ (currentState[i].decided = "true" \/ currentState[i].k >= 2))

\* ======================================================================
\* Stop, start and the readiness barrier (under Spec)
\* ======================================================================

\* the state record GET /stop leaves behind
StoppedState == [killed |-> TRUE, x |-> Null, decided |-> "null", k |-> 0]

\* C11: GET /stop sets killed = true, x = null, decided = null, k = 0; a
\* request handled by a stopped node changes neither the state record nor a
\* tally and broadcasts nothing; a stopped node stays stopped, never shows
\* decided = true, and no message handler changes its k.
C11_StoppedIsInert ==
    [][/\ Stop(0) => currentState'[0] = StoppedState
       /\ \A m \in Drawn :
              (OnMessage(0, m) /\ currentState[0].killed)
                 => UNCHANGED <<currentState, proposals, votes, sent, inbox>>
       /\ currentState[0].killed
             => /\ currentState'[0].killed
                /\ getState(0)'.decided # "true"]_vars

\* C11 witness: a non-faulty node 0 of the copy that handles the kinds it
\* sends is stopped, MaxRequests requests have been made to it, and no tally
\* holds an entry and nothing was broadcast
C11_Witness ==
    /\ impl = "part_000"
    /\ ~isFaulty[0]
    /\ currentState[0] = StoppedState
    /\ requests = MaxRequests
    /\ \A k \in Rounds : Length(proposals[0][k]) = 0 /\ Length(votes[0][k]) = 0
    /\ \A m \in Messages : sent[0][m] = 0

StartRuns(i) == (StartCall(i) /\ nodesAreReady) \/ StartResume(i)
StartRuns0 == StartRuns(0)

\* the state record of a node in its first round
ActiveState(i) == [killed |-> FALSE, x |-> initialValue[i], decided |-> "false", k |-> 1]

\* C12 (as claimed): GET /start on a non-faulty node that was stopped leaves
\* killed = false, k = 1, decided = false, and a started node tallies the
\* proposals and votes it then receives.
C12_ReentryAfterStop ==
    [][/\ (StartRuns0 /\ ~isFaulty[0] /\ currentState[0].killed)
             => currentState'[0] = ActiveState(0)
       /\ \A m \in Drawn :
              (/\ OnMessage(0, m)
               /\ ~isFaulty[0]
               /\ currentState[0].k >= 1
               /\ m.type \in {HandledProposeKind, HandledVoteKind})
                 => TallyFor(0, m)' = Push(TallyFor(0, m), m.x)]_vars

\* ======================================================================
\* The kinds sent and the kinds handled (closed runs)
\* ======================================================================

\* C13 (as claimed): GET /start on a non-faulty node sets k = 1,
\* x = initialValue, decided = false and puts one round-1 proposal carrying
\* initialValue in flight to every node that handles bodies, itself
\* included; every proposal broadcast that is delivered to a non-faulty,
\* non-stopped node is pushed on its proposal tally of that round, and every
\* vote broadcast on its vote tally.
C13_StartFeedsRoundOne ==
    [][/\ \A i \in Nodes :
              (StartRuns(i) /\ ~isFaulty[i])
                 => LET p == Msg(1, initialValue[i], SentProposeKind)
                    IN  /\ currentState'[i].k = 1
                        /\ currentState'[i].x = initialValue[i]
                        /\ currentState'[i].decided = "false"
                        /\ sent'[i][p] = sent[i][p] + 1
                        /\ \A j \in Nodes : ~isFaulty[j] => inbox'[j][p] = inbox[j][p] + 1
       /\ \A i \in Nodes : \A m \in Messages :
              (Deliver(i, m) /\ Processes(i))
                 => /\ m.type = SentProposeKind
                          => proposals'[i][m.k] = Push(proposals[i][m.k], m.x)
                    /\ m.type = SentVoteKind
                          => votes'[i][m.k] = Push(votes[i][m.k], m.x)]_vars

\* ======================================================================
\* The round number (under Spec)
\* ======================================================================

\* C15 (as claimed): the k of a non-faulty node is 0 when constructed and 1
\* after /start, and a message handled by a started, non-stopped node leaves
\* k as it is or makes it k + 1.
C15_RoundMonotonic ==
    [][/\ (StartRuns0 /\ ~isFaulty[0]) => currentState'[0].k = 1
       /\ \A m \in Drawn :
              (HandledBy0(m) /\ currentState[0].k >= 1)
                 => \/ currentState'[0].k = currentState[0].k
                    \/ currentState'[0].k = currentState[0].k + 1]_vars

\* ======================================================================
\* Bodies of another kind (under Spec)
\* ======================================================================

\* C16: a body whose type is neither the proposal type nor the vote type the
\* handler tests for, handled by a non-faulty, non-stopped node, changes no
\* tally and no field of the state record, and nothing is broadcast.
C16_UnknownKindIgnored ==
    [][\A m \in Drawn :
          (HandledBy0(m) /\ m.type \notin {HandledProposeKind, HandledVoteKind})
             => UNCHANGED <<currentState, proposals, votes, sent, inbox>>]_vars

\* C16 witness: a started, non-stopped, non-faulty node 0 of the copy that
\* handles both kinds it sends has received MaxRequests requests and holds
\* empty tallies: every one of them carried another type
C16_Witness ==
    /\ impl = "part_000"
    /\ currentState[0] = ActiveState(0)
    /\ ~isFaulty[0]
    /\ requests = MaxRequests
    /\ \A k \in Rounds : Length(proposals[0][k]) = 0 /\ Length(votes[0][k]) = 0
    /\ sent[0][Msg(1, initialValue[0], SentProposeKind)] = 1

\* ======================================================================
\* Broadcasts per round (closed runs)
\* ======================================================================

\* C17 (as claimed): for every round a non-faulty node broadcasts at most one
\* vote and at most one proposal, however many bodies of that round are
\* delivered to it.
C17_AtMostOncePerRound ==
    \A i \in Nodes : \A k \in 1 .. (MaxRound + 1) :
        ~isFaulty[i] => (VotesSent(i, k) <= 1 /\ ProposalsSent(i, k) <= 1)

\* C18 (as claimed): once a non-faulty node has decided = true, no step
\* changes its k and no step makes it broadcast a proposal.
C18_NoRoundAfterDecision ==
    [][\A i \in Nodes :
          (~isFaulty[i] /\ currentState[i].decided = "true")
             => /\ currentState'[i].k = currentState[i].k
                /\ \A k \in 1 .. (MaxRound + 1) :
                      ProposalsSent(i, k)' = ProposalsSent(i, k)]_vars

\* ======================================================================
\* The proposal branch (under Spec)
\* ======================================================================

\* C19: handling a proposal of round k never changes the state record; when
\* it broadcasts, it broadcasts exactly one body, a vote of round k, one
\* copy to every node that handles bodies, whose value is 0 when more than
\* N/2 entries of the round-k proposal tally are 0, else 1 when more than
\* N/2 are 1, else the ambiguous marker.
C19_VoteValueDerivation ==
    [][\A m \in Drawn :
          (HandledBy0(m) /\ m.type = HandledProposeKind)
             => LET CN == proposals'[0][m.k][0]
                    CY == proposals'[0][m.k][1]
                    vote == [k |-> m.k,
                             x |-> IF 2 * CN > N THEN 0 ELSE IF 2 * CY > N THEN 1 ELSE Amb,
                             type |-> SentVoteKind]
                IN  /\ currentState' = currentState
                    /\ sent' # sent
                          => /\ sent' = [sent EXCEPT ![0][vote] = @ + 1]
                             /\ \A j \in Nodes :
                                   inbox'[j] = IF isFaulty[j] THEN inbox[j]
                                               ELSE [inbox[j] EXCEPT ![vote] = @ + 1]]_vars

\* C19 witness: with N = 4, F = 1 node 0 holds the round-1 proposals 0, 0, 0
\* and 1; it has broadcast the ambiguous vote once (two zeros and a one) and
\* the vote 0 once (three zeros), and its state record is that of /start
C19_Witness ==
    /\ N = 4
    /\ ~isFaulty[0]
    /\ Count(proposals[0][1], 0) = 3
    /\ Count(proposals[0][1], 1) = 1
    /\ sent[0][Msg(1, Amb, SentVoteKind)] = 1
    /\ sent[0][Msg(1, 0, SentVoteKind)] = 1
    /\ currentState[0] = ActiveState(0)

\* ======================================================================
\* Before /start (closed runs)
\* ======================================================================

\* C20 (as claimed): a non-faulty node whose k is 0 does not show
\* decided = true and has broadcast nothing.
C20_InertBeforeStart ==
    \A i \in Nodes :
        (~isFaulty[i] /\ currentState[i].k = 0)
           => /\ getState(i).decided # "true"
              /\ \A m \in Messages : sent[i][m] = 0

====
